---------------------------- MODULE Spec2Model ----------------------------
(***************************************************************************)
(* Session-based attendance API (server.js).                               *)
(*                                                                         *)
(* The document store is four collections.  `courses` and `students` are   *)
(* reference data that no handler writes; `attendance_sessions` and        *)
(* `attendances` are written by the handlers.  Every handler is an async   *)
(* function: it runs to its next `await` and may be interleaved with other *)
(* requests there, so each action below is one store operation of one      *)
(* handler together with the synchronous code around it.  The first action *)
(* of a handler is also the arrival of the request.                        *)
(*                                                                         *)
(* Document ids (ObjectId) are modelled by the position in the collection: *)
(* they are unique and never reused, and nothing is ever deleted.          *)
(* Time is an integer clock; a day is DayLen ticks long.                   *)
(***************************************************************************)
EXTENDS Integers, Sequences, FiniteSets, TLC

\* ------------------------------------------------------------------ bounds
MaxStudents == 2
MaxRequests == 3
MaxRoster == 3
MaxClock == 2
DayLen == 2
NumSlots == 2

\* --------------------------------------------------------------- constants
NullTime == -1
Null == "null"

Slots == 1..NumSlots
\* request dates: two times of day of the first day, and the next day
DateInputs == {0, 1, DayLen}
KnownCourses == {"CS101", "CS102"}
CourseCodes == KnownCourses \cup {"XX000"}
Confidences == {87}
NoteInputs == {"", "surat"}
StatusInputs == {"Hadir", "Izin", "Sakit", "Alpha", "Belum Absen", "Bolos"}
FileInputs == {"", "surat.pdf", "foto.png"}

VARIABLES
  courses,      \* collection courses: the set of course codes
  students,     \* collection students: the set of npm
  sessions,     \* collection attendance_sessions, a sequence; _id = index
  attendances,  \* collection attendances, a sequence; _id = index
  now,          \* the wall clock read by new Date()
  pc,           \* per request slot: where its handler stands
  arg,          \* per request slot: the request (operation and parameters)
  loc,          \* per request slot: the handler's local variables
  resp,         \* per request slot: the response sent, once pc = "done"
  started       \* number of requests received so far

vars == <<courses, students, sessions, attendances, now, pc, arg, loc, resp, started>>
store == <<courses, students, sessions, attendances>>

\* ----------------------------------------------------------------- helpers

\* a slip: the time of day is kept
NormalizeKeepsTime(d) == d

\* new Date(date); setHours(0, 0, 0, 0): the start of the day that holds d
Normalize(d) == d - (d % DayLen)

\* a slip: a sixth value is let through
validStatusesLoose == {"Hadir", "Izin", "Sakit", "Alpha", "Belum Absen", "Bolos"}

\* a slip: the unmarked status is left out
validStatusesShort == {"Hadir", "Izin", "Sakit", "Alpha"}

\* line 273
validStatuses == {"Hadir", "Izin", "Sakit", "Alpha", "Belum Absen"}

SessionIds == 1..Len(sessions)
RecordIds == 1..Len(attendances)
\* ids a request may name: every existing one and one that was never issued
SessionIdInputs == 0..Len(sessions)
RecordIdInputs == 0..Len(attendances)
NpmInputs == 0..MaxStudents

NoResp == [code |-> 0]
NoLoc == [students |-> {}, sessionId |-> 0]
NoArg == [op |-> "none"]

\* a request is served by the lowest slot that holds no request in flight
InFlight(r) == pc[r] \notin {"idle", "done"}
Free(r) ==
  /\ ~InFlight(r)
  /\ \A q \in Slots : q < r => InFlight(q)
  /\ started < MaxRequests

\* a request arrives; the slot keeps it, and later its response, until the
\* next request takes the slot
Begin(r, a) ==
  /\ Free(r)
  /\ arg' = [arg EXCEPT ![r] = a]
  /\ started' = started + 1

\* res.json(body): the handler ends and its locals are gone
Reply(r, body) ==
  /\ pc' = [pc EXCEPT ![r] = "done"]
  /\ resp' = [resp EXCEPT ![r] = body]
  /\ loc' = [loc EXCEPT ![r] = NoLoc]

\* the handler goes on to its next store operation
Enter(r, label, l) ==
  /\ pc' = [pc EXCEPT ![r] = label]
  /\ loc' = [loc EXCEPT ![r] = l]
  /\ resp' = [resp EXCEPT ![r] = NoResp]

\* the catch block of every handler: status 500 with the error's message
Failure(message) == [code |-> 500, success |-> FALSE, error |-> message]

\* ------------------------------------------------------- 1. create session

\* a slip: a session that holds no records does not count as existing
SessionsMatchingSeeded(c, d) ==
  {i \in SessionIds :
     /\ sessions[i].courseCode = c
     /\ sessions[i].date = d
     /\ \E j \in RecordIds : attendances[j].sessionId = i}

\* the filter {courseCode, date: sessionDate} on attendance_sessions
SessionsMatching(c, d) ==
  {i \in SessionIds : sessions[i].courseCode = c /\ sessions[i].date = d}

\* a slip: the session is born closed
NewSessionClosed(c, d) ==
  [courseCode |-> c, date |-> d, createdAt |-> now, status |-> "closed",
   closedAt |-> NullTime]

\* lines 104-111
NewSession(c, d) ==
  [courseCode |-> c, date |-> d, createdAt |-> now, status |-> "active",
   closedAt |-> NullTime]

\* a slip: the records are filed under the first session
NewRecordFirstSession(sid, c, npm) ==
  [sessionId |-> 1, courseCode |-> c, npm |-> npm, status |-> "Belum Absen",
   checkInTime |-> NullTime, confidence |-> NullTime, recognitionMethod |-> Null,
   notes |-> Null, attachmentPath |-> Null]

\* lines 119-133
NewRecord(sid, c, npm) ==
  [sessionId |-> sid, courseCode |-> c, npm |-> npm, status |-> "Belum Absen",
   checkInTime |-> NullTime, confidence |-> NullTime, recognitionMethod |-> Null,
   notes |-> Null, attachmentPath |-> Null]

\* a slip: every student is mapped twice
RECURSIVE MapStudentsTwice(_, _, _)
MapStudentsTwice(S, sid, c) ==
  IF S = {} THEN <<>>
  ELSE LET n == CHOOSE x \in S : \A y \in S : x <= y
       IN <<NewRecord(sid, c, n), NewRecord(sid, c, n)>> \o MapStudentsTwice(S \ {n}, sid, c)

\* students.map(...): one record per student of the array, in the array's order
RECURSIVE MapStudents(_, _, _)
MapStudents(S, sid, c) ==
  IF S = {} THEN <<>>
  ELSE LET n == CHOOSE x \in S : \A y \in S : x <= y
       IN <<NewRecord(sid, c, n)>> \o MapStudents(S \ {n}, sid, c)

\* a slip: the course is not looked up
CreateFindCourseLenient(r, c, d) ==
  /\ Begin(r, [op |-> "createSession", courseCode |-> c, date |-> d])
  /\ Enter(r, "create_check", [students |-> students, sessionId |-> 0])
  /\ UNCHANGED <<store, now>>

\* lines 72-84: the course lookup and the read of the roster
CreateFindCourse(r, c, d) ==
  /\ Begin(r, [op |-> "createSession", courseCode |-> c, date |-> d])
  /\ IF c \notin courses
       THEN Reply(r, [code |-> 404, success |-> FALSE, error |-> "Course not found"])
       ELSE Enter(r, "create_check", [students |-> students, sessionId |-> 0])
  /\ UNCHANGED <<store, now>>

\* lines 86-101: the existence check
CreateFindExisting(r) ==
  /\ pc[r] = "create_check"
  /\ LET found == SessionsMatching(arg[r].courseCode, Normalize(arg[r].date))
     IN IF found # {}
          THEN \E e \in found :
                 Reply(r, [code |-> 200, success |-> FALSE,
                           error |-> "Session already exists for this date",
                           sessionId |-> e])
          ELSE /\ pc' = [pc EXCEPT ![r] = "create_session"]
               /\ UNCHANGED <<resp, loc>>
  /\ UNCHANGED <<store, now, arg, started>>

\* lines 103-116: insertOne(session)
CreateInsertSession(r) ==
  /\ pc[r] = "create_session"
  /\ sessions' = Append(sessions, NewSession(arg[r].courseCode, Normalize(arg[r].date)))
  /\ loc' = [loc EXCEPT ![r].sessionId = Len(sessions) + 1]
  /\ pc' = [pc EXCEPT ![r] = "create_records"]
  /\ UNCHANGED <<courses, students, attendances, now, arg, resp, started>>

\* insertMany(docs): the driver refuses an empty batch
InsertManyFails(docs) == Len(docs) = 0

\* lines 118-148: insertMany(attendanceRecords) and the response
CreateInsertRecords(r) ==
  /\ pc[r] = "create_records"
  /\ LET docs == MapStudents(loc[r].students, loc[r].sessionId, arg[r].courseCode)
     IN IF InsertManyFails(docs)
          THEN /\ Reply(r, Failure("Invalid BulkOperation, Batch cannot be empty"))
               /\ UNCHANGED attendances
          ELSE /\ attendances' = attendances \o docs
               /\ Reply(r, [code |-> 200, success |-> TRUE,
                            sessionId |-> loc[r].sessionId,
                            totalStudents |-> Cardinality(loc[r].students)])
  /\ UNCHANGED <<courses, students, sessions, now, arg, started>>

\* line 135 when the store rejects the batch (StoreFailure): nothing is
\* inserted, and the catch block (lines 143-148) answers 500 and undoes nothing
CreateInsertRecordsFails(r) ==
  /\ pc[r] = "create_records"
  /\ Reply(r, Failure("store failure"))
  /\ UNCHANGED <<store, now, arg, started>>

\* the process stops: every handler in flight is abandoned where it stands
\* and sends no response; the store keeps what was written
Crash ==
  /\ \E r \in Slots : InFlight(r)
  /\ pc' = [r \in Slots |-> IF InFlight(r) THEN "done" ELSE pc[r]]
  /\ resp' = [r \in Slots |-> IF InFlight(r) THEN NoResp ELSE resp[r]]
  /\ loc' = [r \in Slots |-> NoLoc]
  /\ UNCHANGED <<store, now, arg, started>>

\* --------------------------------------------------- 2. get active session

\* the query built at lines 156-162: status active, and the optional filters
\* ("" and NullTime stand for a parameter that was not given)
ActiveMatching(c, d) ==
  {i \in SessionIds :
     /\ sessions[i].status = "active"
     /\ (c # "" => sessions[i].courseCode = c)
     /\ (d # NullTime => sessions[i].date = Normalize(d))}

\* a slip: the sort is ascending
OldestOf(S) == {i \in S : \A j \in S : sessions[i].createdAt <= sessions[j].createdAt}

\* findOne(query, {sort: {createdAt: -1}}): a match that no other match is
\* newer than; among matches of equal createdAt the store may return any
NewestOf(S) == {i \in S : \A j \in S : sessions[j].createdAt <= sessions[i].createdAt}

GetActiveSession(r, c, d) ==
  /\ Begin(r, [op |-> "getActiveSession", courseCode |-> c, date |-> d])
  /\ LET found == NewestOf(ActiveMatching(c, d))
     IN IF found = {}
          THEN Reply(r, [code |-> 200, success |-> FALSE,
                         message |-> "No active session found"])
          ELSE \E i \in found :
                 Reply(r, [code |-> 200, success |-> TRUE,
                           session |-> [id |-> i, doc |-> sessions[i]]])
  /\ UNCHANGED <<store, now>>

\* ------------------------------------------- 3. attendance list of a session

RecordsOf(sid) == {i \in RecordIds : attendances[i].sessionId = sid}

CountStatus(ids, st) == Cardinality({i \in ids : attendances[i].status = st})

\* lines 199-206
SessionStats(ids) ==
  [total      |-> Cardinality(ids),
   hadir      |-> CountStatus(ids, "Hadir"),
   izin       |-> CountStatus(ids, "Izin"),
   sakit      |-> CountStatus(ids, "Sakit"),
   alpha      |-> CountStatus(ids, "Alpha"),
   belumAbsen |-> CountStatus(ids, "Belum Absen")]

\* The response lists the records of the session; their order (by
\* studentName, a field the model does not carry) is left out.
ListBySession(r, sid) ==
  /\ Begin(r, [op |-> "listBySession", sessionId |-> sid])
  /\ Reply(r, [code |-> 200, success |-> TRUE,
               attendances |-> {[id |-> i, doc |-> attendances[i]] : i \in RecordsOf(sid)},
               stats |-> SessionStats(RecordsOf(sid))])
  /\ UNCHANGED <<store, now>>

\* ------------------------------------------ 4. mark present (recognition)

\* the filter {sessionId, npm}
RecordsMatching(sid, npm) ==
  {i \in RecordIds : attendances[i].sessionId = sid /\ attendances[i].npm = npm}

\* updateOne / findOne act on the first document that matches
First(S) == CHOOSE i \in S : \A j \in S : i <= j

\* a slip: a record that is already Hadir keeps its first check-in
MarkPresentOnce(rec, confidence) ==
  IF rec.status = "Hadir" THEN rec
  ELSE [rec EXCEPT !.status = "Hadir", !.checkInTime = now, !.confidence = confidence,
                   !.recognitionMethod = "Face Recognition"]

\* the $set of lines 232-238
MarkPresent(rec, confidence) ==
  [rec EXCEPT !.status = "Hadir", !.checkInTime = now, !.confidence = confidence,
              !.recognitionMethod = "Face Recognition"]

\* lines 224-247
MarkUpdate(r, sid, npm, confidence) ==
  /\ Begin(r, [op |-> "markPresent", sessionId |-> sid, npm |-> npm,
               confidence |-> confidence])
  /\ LET found == RecordsMatching(sid, npm)
     IN IF found = {}
          THEN /\ Reply(r, [code |-> 404, success |-> FALSE,
                            error |-> "Attendance record not found"])
               /\ UNCHANGED attendances
          ELSE /\ attendances' = [attendances EXCEPT
                                    ![First(found)] = MarkPresent(@, confidence)]
               /\ Enter(r, "mark_find", NoLoc)
  /\ UNCHANGED <<courses, students, sessions, now>>

\* the body of a response that carries the document found by findOne
Found(message, S) ==
  [code |-> 200, success |-> TRUE, message |-> message,
   attendance |-> IF S = {} THEN [id |-> 0] ELSE [id |-> First(S), doc |-> attendances[First(S)]]]

\* lines 249-259
MarkFind(r) ==
  /\ pc[r] = "mark_find"
  /\ Reply(r, Found("Attendance marked as Hadir",
                    RecordsMatching(arg[r].sessionId, arg[r].npm)))
  /\ UNCHANGED <<store, now, arg, started>>

\* ------------------------------------------------- 5. manual status update

\* a slip: the attachment is cleared only when the record becomes Hadir
UpdateDataClearsOnHadir(rec, status, notes) ==
  [rec EXCEPT !.status = status,
              !.notes = IF notes # "" THEN notes ELSE @,
              !.attachmentPath = IF status = "Hadir" THEN Null ELSE @]

\* updateData of lines 281-291 applied by $set
UpdateData(rec, status, notes) ==
  [rec EXCEPT !.status = status,
              !.notes = IF notes # "" THEN notes ELSE @,
              !.attachmentPath = IF status # "Izin" /\ status # "Sakit" THEN Null ELSE @]

\* lines 271-302
UpdateStatus(r, id, status, notes) ==
  /\ Begin(r, [op |-> "updateStatus", id |-> id, status |-> status, notes |-> notes])
  /\ IF status \notin validStatuses
       THEN /\ Reply(r, [code |-> 400, success |-> FALSE, error |-> "Invalid status"])
            /\ UNCHANGED attendances
       ELSE IF id \notin RecordIds
         THEN /\ Reply(r, [code |-> 404, success |-> FALSE, error |-> "Attendance not found"])
              /\ UNCHANGED attendances
         ELSE /\ attendances' = [attendances EXCEPT ![id] = UpdateData(@, status, notes)]
              /\ Enter(r, "update_find", NoLoc)
  /\ UNCHANGED <<courses, students, sessions, now>>

\* lines 304-312
UpdateFind(r) ==
  /\ pc[r] = "update_find"
  /\ Reply(r, Found("Status updated", {arg[r].id} \cap RecordIds))
  /\ UNCHANGED <<store, now, arg, started>>

\* ------------------------------------------------- 6. permission letter

\* multer's fileFilter (lines 30-36): only a PDF reaches the handler
Accepted(file) == file \in {"", "surat.pdf"}

\* `/uploads/${req.file.filename}`: the name multer gave the stored file
UploadPath(file) == "/uploads/1.pdf"

\* lines 324-343
AttachFind(r, id, file) ==
  /\ Begin(r, [op |-> "attachFile", id |-> id, file |-> file])
  /\ IF ~Accepted(file)
       THEN Reply(r, [code |-> 500])
       ELSE IF file = ""
         THEN Reply(r, [code |-> 400, success |-> FALSE, error |-> "No file uploaded"])
         ELSE IF id \notin RecordIds
           THEN Reply(r, [code |-> 404, success |-> FALSE, error |-> "Attendance not found"])
           ELSE Enter(r, "attach_update", NoLoc)
  /\ UNCHANGED <<store, now>>

\* a slip: attaching a letter also marks the record Izin
AttachUpdateSetsIzin(r) ==
  /\ pc[r] = "attach_update"
  /\ attendances' = [attendances EXCEPT
                       ![arg[r].id].attachmentPath = UploadPath(arg[r].file),
                       ![arg[r].id].status = "Izin"]
  /\ Reply(r, [code |-> 200, success |-> TRUE, message |-> "File uploaded successfully",
               filePath |-> UploadPath(arg[r].file)])
  /\ UNCHANGED <<courses, students, sessions, now, arg, started>>

\* lines 345-360
AttachUpdate(r) ==
  /\ pc[r] = "attach_update"
  /\ attendances' = [attendances EXCEPT
                       ![arg[r].id].attachmentPath = UploadPath(arg[r].file)]
  /\ Reply(r, [code |-> 200, success |-> TRUE, message |-> "File uploaded successfully",
               filePath |-> UploadPath(arg[r].file)])
  /\ UNCHANGED <<courses, students, sessions, now, arg, started>>

\* ------------------------------------------------------- 7. close session

\* a slip: the status filter is lost, every record of the session becomes Alpha
CloseRecordsAnyStatus(recs, sid) ==
  [i \in DOMAIN recs |->
     IF recs[i].sessionId = sid THEN [recs[i] EXCEPT !.status = "Alpha"] ELSE recs[i]]

\* a slip: the bulk update changes nothing
CloseRecordsKeepsUnmarked(recs, sid) == recs

\* a slip: the session filter is lost
CloseRecordsEverySession(recs, sid) ==
  [i \in DOMAIN recs |->
     IF recs[i].status = "Belum Absen" THEN [recs[i] EXCEPT !.status = "Alpha"] ELSE recs[i]]

\* updateMany({sessionId, status: "Belum Absen"}, {$set: {status: "Alpha"}})
CloseRecords(recs, sid) ==
  [i \in DOMAIN recs |->
     IF recs[i].sessionId = sid /\ recs[i].status = "Belum Absen"
       THEN [recs[i] EXCEPT !.status = "Alpha"]
       ELSE recs[i]]

\* a slip: closing toggles the status
CloseSessionToggles(s) ==
  [s EXCEPT !.status = IF @ = "closed" THEN "active" ELSE "closed", !.closedAt = now]

\* the $set of lines 391-394
CloseSession(s) == [s EXCEPT !.status = "closed", !.closedAt = now]

\* lines 373-385
CloseUpdateMany(r, sid) ==
  /\ Begin(r, [op |-> "closeSession", sessionId |-> sid])
  /\ attendances' = CloseRecords(attendances, sid)
  /\ Enter(r, "close_session", NoLoc)
  /\ UNCHANGED <<courses, students, sessions, now>>

\* lines 387-401
CloseUpdateSession(r) ==
  /\ pc[r] = "close_session"
  /\ sessions' = [i \in DOMAIN sessions |->
                   IF i = arg[r].sessionId THEN CloseSession(sessions[i]) ELSE sessions[i]]
  /\ Reply(r, [code |-> 200, success |-> TRUE,
               message |-> "Session closed, Belum Absen changed to Alpha"])
  /\ UNCHANGED <<courses, students, attendances, now, arg, started>>

\* --------------------------------------------------------- system statistics

\* distinct("npm", {status: "Hadir", checkInTime: {$gte: today}})
PresentSince(today) ==
  {attendances[i].npm : i \in {j \in RecordIds :
      /\ attendances[j].status = "Hadir"
      /\ attendances[j].checkInTime # NullTime
      /\ attendances[j].checkInTime >= today}}

\* a slip: Math.floor
RoundDown(num, den) == num \div den

\* Math.round(x) for x >= 0 given as the fraction num / den
Round(num, den) == (2 * num + den) \div (2 * den)

\* lines 470-473
AttendanceRate(presentToday, totalStudents) ==
  IF totalStudents > 0 THEN Round(presentToday * 100, totalStudents) ELSE 0

\* lines 456-459: today, and the count of the roster
StatsCount(r) ==
  /\ Begin(r, [op |-> "systemStats"])
  /\ Enter(r, "stats_distinct",
           [today |-> Normalize(now), totalStudents |-> Cardinality(students)])
  /\ UNCHANGED <<store, now>>

\* lines 461-483
StatsDistinct(r) ==
  /\ pc[r] = "stats_distinct"
  /\ LET presentToday == Cardinality(PresentSince(loc[r].today))
     IN Reply(r, [code |-> 200, success |-> TRUE,
                  data |-> [totalStudents |-> loc[r].totalStudents,
                            presentToday |-> presentToday,
                            totalCourses |-> Cardinality(courses),
                            attendanceRate |->
                              <<AttendanceRate(presentToday, loc[r].totalStudents), "%">>]])
  /\ UNCHANGED <<store, now, arg, started>>

\* ------------------------------------------------------------------- clock
Tick ==
  /\ now < MaxClock
  /\ now' = now + 1
  /\ UNCHANGED <<store, pc, arg, loc, resp, started>>

\* ---------------------------------------------------------- specification
Init ==
  /\ courses = KnownCourses
  /\ students \in {1..n : n \in 0..MaxStudents}
  /\ sessions = <<>>
  /\ attendances = <<>>
  /\ now = 0
  /\ pc = [r \in Slots |-> "idle"]
  /\ arg = [r \in Slots |-> NoArg]
  /\ loc = [r \in Slots |-> NoLoc]
  /\ resp = [r \in Slots |-> NoResp]
  /\ started = 0

\* the steps of createSession, for requests that name a course of C
CreateStep(r, C) ==
  \/ \E c \in C, d \in DateInputs : CreateFindCourse(r, c, d)
  \/ CreateFindExisting(r)
  \/ CreateInsertSession(r)
  \/ CreateInsertRecords(r)

Step(r) ==
  \/ CreateStep(r, CourseCodes)
  \/ \E c \in CourseCodes \cup {""}, d \in DateInputs \cup {NullTime} : GetActiveSession(r, c, d)
  \/ \E sid \in SessionIdInputs : ListBySession(r, sid)
  \/ \E sid \in SessionIdInputs, npm \in NpmInputs, cf \in Confidences :
        MarkUpdate(r, sid, npm, cf)
  \/ MarkFind(r)
  \/ \E id \in RecordIdInputs, st \in StatusInputs, nt \in NoteInputs :
        UpdateStatus(r, id, st, nt)
  \/ UpdateFind(r)
  \/ \E id \in RecordIdInputs, f \in FileInputs : AttachFind(r, id, f)
  \/ AttachUpdate(r)
  \/ \E sid \in SessionIdInputs : CloseUpdateMany(r, sid)
  \/ CloseUpdateSession(r)
  \/ StatsCount(r)
  \/ StatsDistinct(r)

\* every interleaving of the handlers' store operations, and the clock
Next == (\E r \in Slots : Step(r)) \/ Tick

Spec == Init /\ [][Next]_vars

\* requests handled one after another: slot 1 serves them all
SeqNext == Step(1) \/ Tick

SeqSpec == Init /\ [][SeqNext]_vars

\* every interleaving of the handlers' store operations within one instant
ConcNext == \E r \in Slots : Step(r)

ConcSpec == Init /\ [][ConcNext]_vars

\* Session creation on its own, from the empty store: one request after the
\* other, and every interleaving of concurrent requests for known courses.
CreateSeqNext == CreateStep(1, CourseCodes) \/ Tick

CreateSeqSpec == Init /\ [][CreateSeqNext]_vars

CreateConcNext == \E r \in Slots : CreateStep(r, KnownCourses)

CreateConcSpec == Init /\ [][CreateConcNext]_vars

\* Requests handled one after another by a server whose store may reject the
\* bulk insert and whose process may stop at any await: createSession, and
\* the operations that name a session, markPresentByRecognition and
\* closeSession.
FaultNext ==
  \/ CreateStep(1, CourseCodes)
  \/ CreateInsertRecordsFails(1)
  \/ \E sid \in SessionIdInputs, npm \in NpmInputs, cf \in Confidences :
        MarkUpdate(1, sid, npm, cf)
  \/ MarkFind(1)
  \/ \E sid \in SessionIdInputs : CloseUpdateMany(1, sid)
  \/ CloseUpdateSession(1)
  \/ Crash

FaultSpec == Init /\ [][FaultNext]_vars

\* The session life cycle on its own, one request after the other: sessions
\* are created at different times, closed, and looked up.
ActiveNext ==
  \/ CreateStep(1, KnownCourses)
  \/ \E sid \in SessionIdInputs : CloseUpdateMany(1, sid)
  \/ CloseUpdateSession(1)
  \/ \E c \in CourseCodes \cup {""}, d \in DateInputs \cup {NullTime} : GetActiveSession(1, c, d)
  \/ Tick

ActiveSpec == Init /\ [][ActiveNext]_vars

\* Closing on its own: the server starts on a store that holds two seeded
\* sessions.  The first is active or already closed and its records are in
\* any of the five statuses (a manual update reaches each of them, before or
\* after a close); the second is untouched.
SeededSession(c, status) ==
  [courseCode |-> c, date |-> 0, createdAt |-> 0, status |-> status,
   closedAt |-> IF status = "closed" THEN 0 ELSE NullTime]

CloseInit ==
  /\ courses = KnownCourses
  /\ students \in {1..n : n \in 1..MaxStudents}
  /\ \E st \in {"active", "closed"} :
       sessions = <<SeededSession("CS101", st), SeededSession("CS102", "active")>>
  /\ \E f \in [students -> validStatuses] :
       attendances =
         [i \in 1..Cardinality(students) |->
            [NewRecord(1, "CS101", i) EXCEPT !.status = f[i]]]
         \o MapStudents(students, 2, "CS102")
  /\ now = 0
  /\ pc = [r \in Slots |-> "idle"]
  /\ arg = [r \in Slots |-> NoArg]
  /\ loc = [r \in Slots |-> NoLoc]
  /\ resp = [r \in Slots |-> NoResp]
  /\ started = 0

CloseNext ==
  \/ \E sid \in SessionIdInputs : CloseUpdateMany(1, sid)
  \/ CloseUpdateSession(1)
  \/ Tick

CloseSpec == CloseInit /\ [][CloseNext]_vars

\* The manual update on its own: the server starts on a store that holds one
\* seeded session; the record of the first student is in any status, with or
\* without a permission letter attached.
UpdateInit ==
  /\ courses = KnownCourses
  /\ students \in {1..n : n \in 1..MaxStudents}
  /\ sessions = <<SeededSession("CS101", "active")>>
  /\ \E st \in validStatuses, path \in {Null, UploadPath("surat.pdf")} :
       attendances =
         [MapStudents(students, 1, "CS101") EXCEPT
            ![1] = [@ EXCEPT !.status = st, !.attachmentPath = path]]
  /\ now = 0
  /\ pc = [r \in Slots |-> "idle"]
  /\ arg = [r \in Slots |-> NoArg]
  /\ loc = [r \in Slots |-> NoLoc]
  /\ resp = [r \in Slots |-> NoResp]
  /\ started = 0

UpdateNext ==
  \/ \E id \in RecordIdInputs, st \in StatusInputs, nt \in NoteInputs :
        UpdateStatus(1, id, st, nt)
  \/ UpdateFind(1)

UpdateSpec == UpdateInit /\ [][UpdateNext]_vars

\* Marking by recognition on its own: the server starts on a store that
\* holds one seeded session whose records are all in the same status; records
\* that are Hadir were marked by recognition at time 0.
MarkInit ==
  /\ courses = KnownCourses
  /\ students \in {1..n : n \in 1..MaxStudents}
  /\ sessions = <<SeededSession("CS101", "active")>>
  /\ \E st \in validStatuses :
       attendances =
         [i \in 1..Cardinality(students) |->
            IF st = "Hadir"
              THEN [NewRecord(1, "CS101", i) EXCEPT
                      !.status = "Hadir", !.checkInTime = 0, !.confidence = 50,
                      !.recognitionMethod = "Face Recognition"]
              ELSE [NewRecord(1, "CS101", i) EXCEPT !.status = st]]
  /\ now = 0
  /\ pc = [r \in Slots |-> "idle"]
  /\ arg = [r \in Slots |-> NoArg]
  /\ loc = [r \in Slots |-> NoLoc]
  /\ resp = [r \in Slots |-> NoResp]
  /\ started = 0

MarkNext ==
  \/ \E sid \in SessionIdInputs, npm \in NpmInputs, cf \in Confidences :
        MarkUpdate(1, sid, npm, cf)
  \/ MarkFind(1)
  \/ Tick

MarkSpec == MarkInit /\ [][MarkNext]_vars

\* The upload of a permission letter on its own, on the seeded store of the
\* manual update: the record of the first student is in any status.
AttachNext ==
  \/ \E id \in RecordIdInputs, f \in FileInputs : AttachFind(1, id, f)
  \/ AttachUpdate(1)

AttachSpec == UpdateInit /\ [][AttachNext]_vars

\* Marking by recognition and closing, concurrently: the server starts on a
\* store that holds two sessions as createSession leaves them, and every
\* interleaving of the store operations of the two handlers is taken.
FreshInit ==
  /\ courses = KnownCourses
  /\ students \in {1..n : n \in 1..MaxStudents}
  /\ sessions = <<SeededSession("CS101", "active"), SeededSession("CS102", "active")>>
  /\ attendances = MapStudents(students, 1, "CS101") \o MapStudents(students, 2, "CS102")
  /\ now = 0
  /\ pc = [r \in Slots |-> "idle"]
  /\ arg = [r \in Slots |-> NoArg]
  /\ loc = [r \in Slots |-> NoLoc]
  /\ resp = [r \in Slots |-> NoResp]
  /\ started = 0

MarkCloseNext ==
  \E r \in Slots :
    \/ \E sid \in SessionIdInputs, npm \in NpmInputs, cf \in Confidences :
          MarkUpdate(r, sid, npm, cf)
    \/ MarkFind(r)
    \/ \E sid \in SessionIdInputs : CloseUpdateMany(r, sid)
    \/ CloseUpdateSession(r)

MarkCloseSpec == FreshInit /\ [][MarkCloseNext]_vars

\* The statistics on their own: the server starts on a store that already
\* holds a session and its records.  The roster is kept outside this server,
\* so it need not be the roster the records were seeded from.
RecordStates ==
  {[status |-> "Hadir", checkInTime |-> 0],
   [status |-> "Hadir", checkInTime |-> NullTime],
   [status |-> "Alpha", checkInTime |-> NullTime],
   [status |-> "Belum Absen", checkInTime |-> 0]}

StoredRecord(npm, st) ==
  [NewRecord(1, "CS101", npm) EXCEPT !.status = st.status,
                                     !.checkInTime = st.checkInTime]

StatsInit ==
  /\ courses = KnownCourses
  /\ students \in {1..n : n \in 0..MaxRoster}
  /\ sessions = <<[courseCode |-> "CS101", date |-> 0, createdAt |-> 0,
                   status |-> "active", closedAt |-> NullTime]>>
  /\ \E k \in 0..MaxRoster : \E f \in [1..k -> RecordStates] :
       attendances = [i \in 1..k |-> StoredRecord(i, f[i])]
  /\ now = 0
  /\ pc = [r \in Slots |-> "idle"]
  /\ arg = [r \in Slots |-> NoArg]
  /\ loc = [r \in Slots |-> NoLoc]
  /\ resp = [r \in Slots |-> NoResp]
  /\ started = 0

StatsNext == StatsCount(1) \/ StatsDistinct(1) \/ Tick

StatsSpec == StatsInit /\ [][StatsNext]_vars

\* ------------------------------------------------------------------ claims

\* the day a time falls in
DayOf(t) == t \div DayLen

\* a record as createSession seeds it
Unmarked(rec) ==
  /\ rec.status = "Belum Absen"
  /\ rec.checkInTime = NullTime
  /\ rec.confidence = NullTime
  /\ rec.recognitionMethod = Null
  /\ rec.notes = Null
  /\ rec.attachmentPath = Null

\* the records of session sid in a collection
RecordsIn(recs, sid) == {i \in DOMAIN recs : recs[i].sessionId = sid}

Statuses(recs) == [i \in DOMAIN recs |-> recs[i].status]

\* C1: a createSession for a known course that has no session yet for that
\* day ends with success, reports totalStudents = size of the roster it read,
\* and leaves for the new session id exactly one record per student of that
\* roster, all unmarked -- for every roster size.
C1_CreateSeedsRoster ==
  [][\A r \in Slots :
       (pc[r] = "create_records" /\ pc'[r] = "done") =>
         LET sid == loc[r].sessionId
             new == RecordsIn(attendances', sid)
         IN /\ resp'[r].code = 200
            /\ resp'[r].success
            /\ resp'[r].sessionId = sid
            /\ resp'[r].totalStudents = Cardinality(loc[r].students)
            /\ Cardinality(new) = Cardinality(loc[r].students)
            /\ \A n \in loc[r].students :
                 \E i \in new : attendances'[i].npm = n
            /\ \A i \in new :
                 attendances'[i].npm \in loc[r].students /\ Unmarked(attendances'[i])
  ]_vars

\* C2: handled one after another, a createSession for a (courseCode, day)
\* that already has a session answers Conflict with that session's id and
\* writes nothing, dates of the same day counting as equal; so there is
\* never more than one session per (courseCode, day).
ExistingFor(c, d) ==
  {i \in SessionIds : sessions[i].courseCode = c /\ DayOf(sessions[i].date) = DayOf(d)}

C2_Conflict ==
  /\ [][\A r \in Slots :
          (/\ pc[r] = "create_check"
           /\ pc'[r] # "create_check"
           /\ ExistingFor(arg[r].courseCode, arg[r].date) # {}) =>
            /\ pc'[r] = "done"
            /\ resp'[r].code = 200
            /\ resp'[r].success = FALSE
            /\ resp'[r].sessionId \in ExistingFor(arg[r].courseCode, arg[r].date)
            /\ sessions' = sessions
            /\ attendances' = attendances
     ]_vars
  /\ [](\A i, j \in SessionIds :
          (sessions[i].courseCode = sessions[j].courseCode
           /\ DayOf(sessions[i].date) = DayOf(sessions[j].date)) => i = j)

\* a Conflict was answered to a request whose date is a later time of the day
\* of the existing session
C2_Witness ==
  /\ pc[1] = "done"
  /\ arg[1].op = "createSession"
  /\ resp[1].code = 200
  /\ resp[1].success = FALSE
  /\ Len(sessions) = 1
  /\ arg[1].date # sessions[1].date
  /\ Len(attendances) = MaxStudents

\* C3: closeSession run to completion turns every Belum Absen record of the
\* session into Alpha, keeps every other status, and then marks the session
\* closed with a closedAt timestamp.
C3_Close ==
  /\ [][\A r \in Slots :
          (pc[r] # "close_session" /\ pc'[r] = "close_session") =>
            LET sid == arg'[r].sessionId
            IN /\ Len(attendances') = Len(attendances)
               /\ \A i \in RecordIds :
                    attendances'[i].status =
                      IF attendances[i].sessionId = sid
                         /\ attendances[i].status = "Belum Absen"
                        THEN "Alpha"
                        ELSE attendances[i].status
               /\ sessions' = sessions
     ]_vars
  /\ [][\A r \in Slots :
          (pc[r] = "close_session" /\ pc'[r] = "done") =>
            LET sid == arg[r].sessionId
            IN /\ attendances' = attendances
               /\ resp'[r].success
               /\ sid \in SessionIds =>
                    /\ sessions'[sid].status = "closed"
                    /\ sessions'[sid].closedAt = now
                    /\ sessions'[sid].closedAt # NullTime
     ]_vars

\* a close has completed on a session that had a Hadir and an unmarked record
C3_Witness ==
  /\ pc[1] = "done"
  /\ arg[1].op = "closeSession"
  /\ resp[1].success
  /\ arg[1].sessionId \in SessionIds
  /\ sessions[arg[1].sessionId].status = "closed"
  /\ \E i, j \in RecordsOf(arg[1].sessionId) :
       attendances[i].status = "Hadir" /\ attendances[j].status = "Alpha"

\* C4: a closeSession of an already closed session is answered with success;
\* when it directly follows a closeSession of the same session it changes no
\* record status, and it leaves the session closed.
SessionStatuses(ss) == [i \in DOMAIN ss |-> ss[i].status]

C4_CloseTwice ==
  /\ [][\A r \in Slots :
          (/\ pc[r] = "done"
           /\ arg[r].op = "closeSession"
           /\ resp[r].success
           /\ pc'[r] = "close_session"
           /\ arg'[r] = arg[r]) =>
            /\ Statuses(attendances') = Statuses(attendances)
            /\ SessionStatuses(sessions') = SessionStatuses(sessions)
     ]_vars
  /\ [][\A r \in Slots :
          (/\ pc[r] = "close_session"
           /\ pc'[r] = "done"
           /\ arg[r].sessionId \in SessionIds
           /\ sessions[arg[r].sessionId].status = "closed") =>
            /\ resp'[r].code = 200
            /\ resp'[r].success
            /\ Statuses(attendances') = Statuses(attendances)
            /\ SessionStatuses(sessions') = SessionStatuses(sessions)
     ]_vars

\* a closeSession has run its bulk update on a session that an earlier
\* closeSession of this run had closed
C4_Witness ==
  /\ pc[1] = "close_session"
  /\ arg[1].sessionId \in SessionIds
  /\ sessions[arg[1].sessionId].status = "closed"
  /\ sessions[arg[1].sessionId].closedAt > sessions[arg[1].sessionId].createdAt
  /\ \E i \in RecordsOf(arg[1].sessionId) : attendances[i].status = "Alpha"

\* C5: for every session, in every reachable state, the statistics of
\* listBySession satisfy total = hadir + izin + sakit + alpha + belumAbsen,
\* and every response of listBySession carries counters that are the numbers
\* of the records it lists in each status.
SumOf(st) == st.hadir + st.izin + st.sakit + st.alpha + st.belumAbsen

Listed(A, status) == Cardinality({a \in A : a.doc.status = status})

C5_StatsSum ==
  /\ \A sid \in SessionIdInputs :
       SessionStats(RecordsOf(sid)).total = SumOf(SessionStats(RecordsOf(sid)))
  /\ \A r \in Slots :
       (pc[r] = "done" /\ arg[r].op = "listBySession") =>
         LET st == resp[r].stats
             A == resp[r].attendances
         IN /\ st.total = SumOf(st)
            /\ st.total = Cardinality(A)
            /\ st.hadir = Listed(A, "Hadir")
            /\ st.izin = Listed(A, "Izin")
            /\ st.sakit = Listed(A, "Sakit")
            /\ st.alpha = Listed(A, "Alpha")
            /\ st.belumAbsen = Listed(A, "Belum Absen")

\* a list of a session with one record present and one still unmarked
C5_Witness ==
  \E r \in Slots :
    /\ pc[r] = "done"
    /\ arg[r].op = "listBySession"
    /\ resp[r].stats.total = MaxStudents
    /\ resp[r].stats.hadir = 1
    /\ resp[r].stats.belumAbsen = resp[r].stats.total - 1

\* C6: updateStatusManually on an existing record sets its status to the
\* given value; to Hadir, Alpha or Belum Absen the attachmentPath becomes
\* null, to Izin or Sakit it stays as it was.
C6_ManualUpdate ==
  [][\A r \in Slots :
       (pc[r] # "update_find" /\ pc'[r] = "update_find") =>
         LET id == arg'[r].id
             status == arg'[r].status
         IN /\ id \in RecordIds
            /\ attendances'[id].status = status
            /\ status \in {"Hadir", "Alpha", "Belum Absen"} =>
                 attendances'[id].attachmentPath = Null
            /\ status \in {"Izin", "Sakit"} =>
                 attendances'[id].attachmentPath = attendances[id].attachmentPath
  ]_vars

\* a record that carried an attachment was set to Izin and still carries it
C6_Witness ==
  \E r \in Slots :
    /\ pc[r] = "update_find"
    /\ arg[r].status = "Izin"
    /\ attendances[arg[r].id].status = "Izin"
    /\ attendances[arg[r].id].attachmentPath # Null

\* C7: every session is created active, and a closed session stays closed.
C7_Lifecycle ==
  [][/\ Len(sessions') >= Len(sessions)
     /\ \A i \in 1..Len(sessions') :
          /\ i > Len(sessions) => sessions'[i].status = "active"
          /\ (i <= Len(sessions) /\ sessions[i].status = "closed") =>
               sessions'[i].status = "closed"
  ]_vars

\* a session is closed, no request is in flight, and a record of the session
\* has been set back to Belum Absen since its bulk update
C7_Witness ==
  /\ \A r \in Slots : ~InFlight(r)
  /\ \E sid \in SessionIds :
       /\ sessions[sid].status = "closed"
       /\ \E i \in RecordsOf(sid) : attendances[i].status = "Belum Absen"

\* C8 as stated: in every reachable state, the states between the store
\* writes of a request included, every existing session has exactly one
\* record per student of the roster.
C8_ExactlyOneAlways ==
  \A sid \in SessionIds, n \in students :
    Cardinality(RecordsMatching(sid, n)) = 1

\* C8 amended: there is never more than one record per (sessionId, npm), and
\* a session lacks the record of a student of the roster only while the
\* createSession that inserted it has not yet inserted its records.
C8_ExactlyOneOnceSeeded ==
  \A sid \in SessionIds :
    /\ \A n \in NpmInputs : Cardinality(RecordsMatching(sid, n)) <= 1
    /\ \A i \in RecordsOf(sid) : attendances[i].npm \in students
    /\ \A n \in students :
         RecordsMatching(sid, n) = {} =>
           \E r \in Slots : pc[r] = "create_records" /\ loc[r].sessionId = sid

\* a session is in the store and its records are not yet
C8_Witness ==
  \E r \in Slots :
    /\ pc[r] = "create_records"
    /\ loc[r].students # {}
    /\ RecordsOf(loc[r].sessionId) = {}
    /\ \E sid \in SessionIds : sid # loc[r].sessionId /\ RecordsOf(sid) # {}

\* C9: two createSession calls for the same (courseCode, day) that both
\* answer success have created two sessions for that (courseCode, day), each
\* with one record per student of the roster; the witness shows that two
\* concurrent calls reach this.
CreatedOk(r) ==
  /\ pc[r] = "done"
  /\ arg[r].op = "createSession"
  /\ resp[r].code = 200
  /\ resp[r].success

C9_DuplicateSessions ==
  \A r, q \in Slots :
    (/\ r # q
     /\ CreatedOk(r)
     /\ CreatedOk(q)
     /\ arg[r].courseCode = arg[q].courseCode
     /\ DayOf(arg[r].date) = DayOf(arg[q].date)) =>
      /\ resp[r].sessionId # resp[q].sessionId
      /\ \A x \in {r, q} :
           LET sid == resp[x].sessionId
           IN /\ sid \in SessionIds
              /\ sessions[sid].courseCode = arg[x].courseCode
              /\ DayOf(sessions[sid].date) = DayOf(arg[x].date)
              /\ \A n \in students : Cardinality(RecordsMatching(sid, n)) = 1
              /\ Cardinality(RecordsOf(sid)) = Cardinality(students)

\* both concurrent calls answered success and the store holds two sessions
\* of one (courseCode, day), each fully seeded
C9_Witness ==
  /\ CreatedOk(1)
  /\ CreatedOk(2)
  /\ arg[1].courseCode = arg[2].courseCode
  /\ DayOf(arg[1].date) = DayOf(arg[2].date)
  /\ Len(sessions) = 2
  /\ sessions[1].courseCode = sessions[2].courseCode
  /\ sessions[1].date = sessions[2].date
  /\ Len(attendances) = 2 * MaxStudents

\* C10: systemStats answers attendanceRate 0 whenever totalStudents is 0,
\* whatever records exist, and otherwise the integer nearest to
\* presentToday / totalStudents * 100 (a half rounds up).
IsRounded(q, num, den) ==
  /\ 2 * num - den < 2 * q * den
  /\ 2 * q * den <= 2 * num + den

Creating(sid) == \E r \in Slots : pc[r] = "create_records" /\ loc[r].sessionId = sid

C11_OrphanSession ==
  /\ [][\A r \in Slots :
          (pc[r] = "create_records" /\ pc'[r] = "done" /\ resp'[r].code # 200) =>
            LET sid == loc[r].sessionId
            IN /\ sessions' = sessions
               /\ attendances' = attendances
               /\ sid \in SessionIds
               /\ sessions[sid].status = "active"
               /\ RecordsOf(sid) = {}
     ]_vars
  /\ [][\A sid \in SessionIds :
          /\ sid <= Len(sessions')
          /\ sessions'[sid].courseCode = sessions[sid].courseCode
          /\ sessions'[sid].date = sessions[sid].date
          /\ ~Creating(sid) => RecordsIn(attendances', sid) = RecordsIn(attendances, sid)
     ]_vars
  /\ [][\A r \in Slots :
          (/\ pc[r] = "create_check"
           /\ pc'[r] # "create_check"
           /\ ExistingFor(arg[r].courseCode, arg[r].date) # {}) =>
            /\ pc'[r] = "done"
            /\ store' = store
            /\ resp'[r] # NoResp =>
                 /\ resp'[r].code = 200
                 /\ resp'[r].success = FALSE
                 /\ resp'[r].sessionId \in ExistingFor(arg[r].courseCode, arg[r].date)
     ]_vars

\* a later createSession was answered Conflict with the id of an active
\* session that a stopped createSession left without records
C11_Witness ==
  /\ students # {}
  /\ pc[1] = "done"
  /\ arg[1].op = "createSession"
  /\ resp[1].code = 200
  /\ resp[1].success = FALSE
  /\ sessions[resp[1].sessionId].status = "active"
  /\ RecordsOf(resp[1].sessionId) = {}

\* C12 as stated: in every reachable state, no record of a closed session is
\* Belum Absen.
C12_ClosedHasNoUnmarked ==
  \A sid \in SessionIds :
    sessions[sid].status = "closed" =>
      \A i \in RecordsOf(sid) : attendances[i].status # "Belum Absen"

\* record i is Belum Absen and its session is closed, or a closeSession of
\* its session has run its bulk update
UnmarkedInClosed(recs, ss, p, a, i) ==
  /\ i \in DOMAIN recs
  /\ recs[i].status = "Belum Absen"
  /\ \/ /\ recs[i].sessionId \in DOMAIN ss
        /\ ss[recs[i].sessionId].status = "closed"
     \/ \E r \in Slots : p[r] = "close_session" /\ a[r].sessionId = recs[i].sessionId

\* C12 amended: the bulk update of closeSession leaves no record of the
\* session Belum Absen, and from then on a record of the session is Belum
\* Absen only if updateStatusManually has set it to Belum Absen or
\* createSession has inserted it since.
C12_UnmarkedOnlyByResetOrSeed ==
  [][\A i \in 1..Len(attendances') :
       (/\ UnmarkedInClosed(attendances', sessions', pc', arg', i)
        /\ ~UnmarkedInClosed(attendances, sessions, pc, arg, i)) =>
         \/ i > Len(attendances)
         \/ \E r \in Slots :
              /\ pc[r] # "update_find"
              /\ pc'[r] = "update_find"
              /\ arg'[r].id = i
              /\ arg'[r].status = "Belum Absen"
  ]_vars

\* a closeSession ran between the insertOne and the insertMany of the
\* createSession of its session: both have answered success, the session is
\* closed and all its records are Belum Absen
C12_Witness ==
  /\ students # {}
  /\ CreatedOk(1)
  /\ pc[2] = "done"
  /\ arg[2].op = "closeSession"
  /\ arg[2].sessionId = resp[1].sessionId
  /\ resp[2].code = 200
  /\ sessions[resp[1].sessionId].status = "closed"
  /\ \A n \in students :
       \E i \in RecordsMatching(resp[1].sessionId, n) :
         attendances[i].status = "Belum Absen"

\* C13: getActiveSession answers with a session exactly when some active
\* session matches the filters that were given (course code, day); the session
\* it answers with is active, matches the filters, and none of the matching
\* active sessions was created later; otherwise it answers "not found" with
\* success false and no error status.
MatchesFilters(i, c, d) ==
  /\ sessions[i].status = "active"
  /\ c # "" => sessions[i].courseCode = c
  /\ d # NullTime => DayOf(sessions[i].date) = DayOf(d)

C13_ActiveSession ==
  [][\A r \in Slots :
       (Free(r) /\ started' = started + 1 /\ arg'[r].op = "getActiveSession") =>
         LET M == {i \in SessionIds : MatchesFilters(i, arg'[r].courseCode, arg'[r].date)}
         IN /\ pc'[r] = "done"
            /\ resp'[r].code = 200
            /\ store' = store
            /\ resp'[r].success <=> M # {}
            /\ resp'[r].success =>
                 /\ resp'[r].session.id \in M
                 /\ resp'[r].session.doc = sessions[resp'[r].session.id]
                 /\ resp'[r].session.doc.status # "closed"
                 /\ \A j \in M : sessions[j].createdAt <= resp'[r].session.doc.createdAt
            /\ ~resp'[r].success => resp'[r].message = "No active session found"
  ]_vars

\* the answer is the newer of two active sessions that match the filters
C13_Witness ==
  \E r \in Slots :
    /\ pc[r] = "done"
    /\ arg[r].op = "getActiveSession"
    /\ resp[r].success
    /\ \E j \in SessionIds :
         /\ MatchesFilters(j, arg[r].courseCode, arg[r].date)
         /\ sessions[j].createdAt < resp[r].session.doc.createdAt

\* C14: markPresentByRecognition answers NotFound and changes no record when
\* no record exists for (sessionId, npm); when one exists, whatever its
\* status, Hadir included, the call is accepted and that record gets status
\* Hadir, checkInTime = the time of the call, the given confidence and
\* recognitionMethod "Face Recognition", while no other record changes; the
\* call then answers success.
C14_MarkPresent ==
  /\ [][\A r \in Slots :
          (Free(r) /\ started' = started + 1 /\ arg'[r].op = "markPresent") =>
            LET M == RecordsIn(attendances, arg'[r].sessionId) \cap
                       {i \in RecordIds : attendances[i].npm = arg'[r].npm}
            IN /\ sessions' = sessions
               /\ Len(attendances') = Len(attendances)
               /\ M = {} =>
                    /\ pc'[r] = "done"
                    /\ resp'[r].code = 404
                    /\ resp'[r].success = FALSE
                    /\ attendances' = attendances
               /\ M # {} =>
                    /\ pc'[r] = "mark_find"
                    /\ \E i \in M :
                         /\ attendances'[i].status = "Hadir"
                         /\ attendances'[i].checkInTime = now
                         /\ attendances'[i].confidence = arg'[r].confidence
                         /\ attendances'[i].recognitionMethod = "Face Recognition"
                         /\ \A j \in RecordIds \ {i} : attendances'[j] = attendances[j]
     ]_vars
  /\ [][\A r \in Slots :
          (pc[r] = "mark_find" /\ pc'[r] = "done") =>
            /\ resp'[r].code = 200
            /\ resp'[r].success
            /\ store' = store
     ]_vars

\* a record that was Hadir since time 0 has been marked again at a later
\* time and carries the later checkInTime; the other record still carries
\* the marks of time 0
C14_Witness ==
  \E i, j \in RecordIds :
    /\ pc[1] = "mark_find"
    /\ now > 0
    /\ attendances[i].npm = arg[1].npm
    /\ attendances[i].status = "Hadir"
    /\ attendances[i].checkInTime = now
    /\ attendances[i].confidence = arg[1].confidence
    /\ attendances[j].status = "Hadir"
    /\ attendances[j].checkInTime = 0
    /\ attendances[j].confidence = 50

\* C15: updateStatusManually with a status outside the five values answers
\* InvalidArgument (400), whatever the record id; with one of the five values
\* and an id that no record has it answers NotFound (404); in both cases no
\* record and no session is changed.
C15_UpdateRejected ==
  [][\A r \in Slots :
       (Free(r) /\ started' = started + 1 /\ arg'[r].op = "updateStatus") =>
         LET valid == arg'[r].status \in {"Hadir", "Izin", "Sakit", "Alpha", "Belum Absen"}
         IN /\ ~valid =>
                 /\ pc'[r] = "done"
                 /\ resp'[r].code = 400
                 /\ resp'[r].success = FALSE
                 /\ store' = store
            /\ (valid /\ arg'[r].id \notin RecordIds) =>
                 /\ pc'[r] = "done"
                 /\ resp'[r].code = 404
                 /\ resp'[r].success = FALSE
                 /\ store' = store
            /\ (valid /\ arg'[r].id \in RecordIds) => pc'[r] = "update_find"
  ]_vars

\* an update with an invalid status and a note was refused for a record that
\* carries an attachment and no note: the record is as it was
C15_Witness ==
  \E r \in Slots :
    /\ pc[r] = "done"
    /\ arg[r].op = "updateStatus"
    /\ resp[r].code = 400
    /\ arg[r].notes # ""
    /\ arg[r].id \in RecordIds
    /\ attendances[arg[r].id].status \in {"Izin", "Hadir"}
    /\ attendances[arg[r].id].attachmentPath # Null
    /\ attendances[arg[r].id].notes = Null

\* C16: createSession with a course code that is not in the courses
\* collection answers NotFound (404) at once and writes nothing: no session
\* and no record is inserted, then or later, by that request.
C16_UnknownCourse ==
  [][\A r \in Slots :
       (/\ Free(r)
        /\ started' = started + 1
        /\ arg'[r].op = "createSession"
        /\ arg'[r].courseCode \notin courses) =>
         /\ pc'[r] = "done"
         /\ resp'[r].code = 404
         /\ resp'[r].success = FALSE
         /\ store' = store
  ]_vars

\* a createSession for an unknown course was refused on a store that
\* already holds a session and its records, and no session names that course
C16_Witness ==
  \E r \in Slots :
    /\ pc[r] = "done"
    /\ arg[r].op = "createSession"
    /\ arg[r].courseCode \notin courses
    /\ resp[r].code = 404
    /\ Len(sessions) = 1
    /\ Len(attendances) = MaxStudents
    /\ \A i \in SessionIds : sessions[i].courseCode # arg[r].courseCode

\* C17: attachFile with an accepted file on an existing record goes through
\* whatever the record's status: it answers success, the record's
\* attachmentPath is the path it answers with, and nothing else of that
\* record (its status included), no other record and no session changes; with
\* an accepted file and an id that no record has it answers NotFound (404)
\* and changes nothing.
C17_AttachFile ==
  /\ [][\A r \in Slots :
          (/\ Free(r)
           /\ started' = started + 1
           /\ arg'[r].op = "attachFile"
           /\ arg'[r].file = "surat.pdf") =>
            /\ store' = store
            /\ arg'[r].id \in RecordIds => pc'[r] = "attach_update"
            /\ arg'[r].id \notin RecordIds =>
                 /\ pc'[r] = "done"
                 /\ resp'[r].code = 404
                 /\ resp'[r].success = FALSE
     ]_vars
  /\ [][\A r \in Slots :
          (pc[r] = "attach_update" /\ pc'[r] = "done") =>
            /\ resp'[r].code = 200
            /\ resp'[r].success
            /\ resp'[r].filePath # Null
            /\ sessions' = sessions
            /\ attendances' =
                 [attendances EXCEPT ![arg[r].id].attachmentPath = resp'[r].filePath]
     ]_vars

\* a letter was attached to a record in status Alpha
C17_Witness ==
  \E r \in Slots :
    /\ pc[r] = "done"
    /\ arg[r].op = "attachFile"
    /\ resp[r].code = 200
    /\ attendances[arg[r].id].status = "Alpha"
    /\ attendances[arg[r].id].attachmentPath = resp[r].filePath

\* C18: in every reachable state every record's status is one of Belum
\* Absen, Hadir, Izin, Sakit, Alpha and every session's status is active or
\* closed, requests with an invalid status included.
C18_StatusDomains ==
  /\ \A i \in RecordIds :
       attendances[i].status \in {"Belum Absen", "Hadir", "Izin", "Sakit", "Alpha"}
  /\ \A i \in SessionIds : sessions[i].status \in {"active", "closed"}

\* an update with a status outside the five values has been refused, and the
\* records of a session are one Hadir, the others Belum Absen
C18_Witness ==
  \E r \in Slots :
    /\ pc[r] = "done"
    /\ arg[r].op = "updateStatus"
    /\ arg[r].status = "Bolos"
    /\ arg[r].id \in RecordIds
    /\ resp[r].code = 400
    /\ \E i, j \in RecordIds :
         attendances[i].status = "Hadir" /\ attendances[j].status = "Belum Absen"

\* C19: whenever a markPresentByRecognition that answered success and a
\* closeSession of the same session have both completed, in whatever order
\* their store operations were interleaved, the marked record is Hadir.
C19_MarkSurvivesClose ==
  \A r, q \in Slots :
    (/\ pc[r] = "done"
     /\ arg[r].op = "markPresent"
     /\ resp[r].code = 200
     /\ resp[r].success
     /\ pc[q] = "done"
     /\ arg[q].op = "closeSession"
     /\ resp[q].code = 200
     /\ arg[q].sessionId = arg[r].sessionId) =>
      /\ RecordsMatching(arg[r].sessionId, arg[r].npm) # {}
      /\ \A i \in RecordsMatching(arg[r].sessionId, arg[r].npm) :
           attendances[i].status = "Hadir"

\* the mark arrived while the closeSession of its session was between its
\* bulk update, which had turned the record to Alpha, and its
\* update of the session; both have completed, the session is closed, the
\* marked record is Hadir and another is Alpha
C19_Witness ==
  /\ started = 2
  /\ pc[1] = "done"
  /\ arg[1].op = "closeSession"
  /\ pc[2] = "done"
  /\ arg[2].op = "markPresent"
  /\ resp[2].code = 200
  /\ arg[2].sessionId = arg[1].sessionId
  /\ sessions[arg[1].sessionId].status = "closed"
  /\ \E i \in RecordsMatching(arg[2].sessionId, arg[2].npm) : attendances[i].status = "Hadir"
  /\ \E j \in RecordsOf(arg[1].sessionId) : attendances[j].status = "Alpha"

\* C20: no step removes a record or a session; a step of
\* markPresentByRecognition changes at most one record, a record of the
\* (sessionId, npm) it names, and no session; a step of updateStatusManually
\* or attachFile changes at most the record whose id it names, and no
\* session; a step of closeSession(s) changes only records whose sessionId is
\* s and only the session s; none of the four inserts anything.
Moved(r) == (Free(r) /\ started' = started + 1) \/ pc'[r] # pc[r]

ChangedRecords ==
  {i \in RecordIds : i > Len(attendances') \/ attendances'[i] # attendances[i]}

ChangedSessions ==
  {i \in SessionIds : i > Len(sessions') \/ sessions'[i] # sessions[i]}

C20_Frame ==
  /\ [][Len(attendances') >= Len(attendances) /\ Len(sessions') >= Len(sessions)]_vars
  /\ [][\A r \in Slots :
          (Moved(r) /\ arg'[r].op \in {"markPresent", "updateStatus", "attachFile",
                                      "closeSession"}) =>
            /\ Len(attendances') = Len(attendances)
            /\ Len(sessions') = Len(sessions)
            /\ arg'[r].op = "markPresent" =>
                 /\ ChangedSessions = {}
                 /\ Cardinality(ChangedRecords) <= 1
                 /\ \A i \in ChangedRecords :
                      /\ attendances[i].sessionId = arg'[r].sessionId
                      /\ attendances[i].npm = arg'[r].npm
            /\ arg'[r].op \in {"updateStatus", "attachFile"} =>
                 /\ ChangedSessions = {}
                 /\ ChangedRecords \subseteq {arg'[r].id}
            /\ arg'[r].op = "closeSession" =>
                 /\ \A i \in ChangedRecords : attendances[i].sessionId = arg'[r].sessionId
                 /\ ChangedSessions \subseteq {arg'[r].sessionId}
     ]_vars

\* one of two sessions has been closed and its records are Alpha; the other
\* session is active and all its records are Belum Absen
C20_Witness ==
  \E r \in Slots : \E other \in SessionIds :
    /\ pc[r] = "done"
    /\ arg[r].op = "closeSession"
    /\ arg[r].sessionId \in SessionIds \ {other}
    /\ sessions[arg[r].sessionId].status = "closed"
    /\ \E i \in RecordsOf(arg[r].sessionId) : attendances[i].status = "Alpha"
    /\ sessions[other].status = "active"
    /\ Cardinality(RecordsOf(other)) = MaxStudents
    /\ \A i \in RecordsOf(other) : attendances[i].status = "Belum Absen"
=============================================================================
